---- MODULE Spec2Model ----
(***************************************************************************)
(* FocusPal presence tracker (src/app.py, class PresenceTrackerApp) as a   *)
(* state machine.  Time is counted in tenths of a second: the code's       *)
(* thresholds are 0.1 s, 1.0 s, 3.0 s and 10.0 s.  Every handler (button   *)
(* command or timer callback) runs to completion in one step and reads the *)
(* clock once; the clock moves only between handlers.                      *)
(***************************************************************************)
EXTENDS Integers, Sequences, FiniteSets, TLC

\* ------------------------------------------------------------------ bounds
\* Seconds of clock the model follows after the window is built.
MaxSeconds == 6
\* The window is built this many seconds before local midnight.
PreMidnight == 3
\* The clock's sub-second phase takes the values 0 .. MaxFine tenths.
MaxFine == 1
\* Timer callbacks (root.after) that may be pending at once.
MaxPending == 3
\* Rows the presence table may hold; the model stops following a run there.
MaxRows == 2
\* Seconds of clock followed when the clock moves by whole seconds (SpecLong).
LongSeconds == 12
\* Rows the presence table may hold when the clock moves by whole seconds.
LongRows == 1
\* Seconds of clock followed under the main loop's scheduling (SpecLive).
LiveSeconds == 8

\* --------------------------------------------------------------- constants
\* Clock units per second: the "%H:%M:%S" texts resolve whole seconds.
TicksPerSecond == 10
\* DATE(start_time) and date.today() resolve whole days.
SecondsPerDay == 86400

FastInterval == 1 * TicksPerSecond
SlowInterval == 10 * TicksPerSecond
absence_threshold == 3 * TicksPerSecond
\* "duration > 0.1"
MinDuration == TicksPerSecond \div 10
\* Python's None for an optional timestamp.
None == 0 - 1

Boot == (SecondsPerDay - PreMidnight) * TicksPerSecond
Horizon == Boot + MaxSeconds * TicksPerSecond
LongHorizon == Boot + LongSeconds * TicksPerSecond
LiveHorizon == Boot + LiveSeconds * TicksPerSecond

Detections == {"present", "absent", "error"}

VARIABLES
  now,                      \* time.time()
  running, paused, pause_start_time,
  camera, model, conn,      \* resource held (TRUE) or None (FALSE)
  session_active, session_start_time, current_session_duration,
  last_detection_run_time, detection_interval,
  absence_start_time, total_time_today,
  status_label,             \* text of the status label
  display_total,            \* number last formatted into today_time_label
  presence,                 \* rows of table presence, in insertion order
  pending,                  \* update_frame callbacks scheduled by root.after
  \* history variables, read by no handler
  calls,                    \* handler and collaborator calls of the last step
  session_run_time,         \* clock elapsed in phase Running since the open session began
  session_paused_time,      \* clock elapsed in phase Paused since the open session began
  absence_run_time,         \* session_run_time when the pending absence began
  person_detected_in_last_run,  \* "yes" / "no": person_detected_in_this_run of the
                            \* last detection run since the tracker was started;
                            \* "none" before the first run and while Stopped
  event                     \* what the last step started from, when it closed a
                            \* session, cancelled a pending absence or resumed

prog == <<now, running, paused, pause_start_time, camera, model, conn,
          session_active, session_start_time, current_session_duration,
          last_detection_run_time, detection_interval, absence_start_time,
          total_time_today, status_label, display_total, presence, pending>>
vars == <<prog, calls, session_run_time, session_paused_time, absence_run_time,
          person_detected_in_last_run, event>>

\* ----------------------------------------------------------- conversions
\* datetime.fromtimestamp(t).strftime("%Y-%m-%d %H:%M:%S"): the whole second.
StrfTime(t) == t \div TicksPerSecond
\* DATE(text) / date.today(): the day of a whole second.
DateOf(sec) == sec \div SecondsPerDay
\* format_duration: int(seconds), then h, m, s.
FormatDuration(seconds) ==
  LET i  == seconds \div TicksPerSecond
      m0 == i \div 60
  IN  <<m0 \div 60, m0 % 60, i % 60>>

\* SELECT SUM(duration) FROM presence WHERE DATE(start_time) = day
RECURSIVE SumDuration(_, _)
SumDuration(rows, day) ==
  IF rows = <<>> THEN 0
  ELSE (IF DateOf(Head(rows).start_time) = day THEN Head(rows).duration ELSE 0)
       + SumDuration(Tail(rows), day)

Log(s, c) == [s EXCEPT !.calls = Append(@, c)]

\* ------------------------------------------------------------- database
ConnectDb(s, db_ok) ==
  IF db_ok THEN Log([s EXCEPT !.conn = TRUE], "connect_db")
  ELSE Log([s EXCEPT !.conn = FALSE], "connect_db failed")

CloseDb(s) ==
  IF s.conn THEN Log([s EXCEPT !.conn = FALSE], "conn.close") ELSE s

GetTotalTimeForToday(s) ==
  IF s.conn THEN SumDuration(s.presence, DateOf(StrfTime(s.now))) ELSE 0

Refresh(s) ==
  LET q == IF s.conn THEN Log(s, "SELECT SUM") ELSE s
  IN  [q EXCEPT !.total_time_today = GetTotalTimeForToday(s)]

Row(start_time, end_time, duration) ==
  [start_time |-> StrfTime(start_time), end_time |-> StrfTime(end_time),
   duration |-> duration]

SaveSession(s, start_time, end_time, duration, ins_ok) ==
  IF s.conn THEN
    IF ins_ok THEN
      LET s1 == Log([s EXCEPT !.presence = Append(@, Row(start_time, end_time, duration))],
                    "INSERT")
          s2 == Refresh(s1)
      IN  [s2 EXCEPT !.display_total = s2.total_time_today]
    ELSE Log(s, "INSERT failed")
  ELSE Log(s, "not connected")

\* ---------------------------------------------------------- stop_tracker
Qualifies(duration) == duration > MinDuration

\* Mutant of ResetSession: the closed session's start time is left in place.
ResetSession_keepsStart(s) ==
  [s EXCEPT !.session_active = FALSE, !.current_session_duration = 0]

\* "Reset session state" of stop_tracker and of the absence close.
ResetSession(s) ==
  [s EXCEPT !.session_active = FALSE, !.session_start_time = None,
            !.current_session_duration = 0]

\* Mutant of StopEnd: a stop backdates to the pending absence, as the absence rule does.
StopEnd_backdated(s) == IF s.absence_start_time # None THEN s.absence_start_time ELSE s.now

\* session_end_time = time.time()
StopEnd(s) == s.now

EndSessionOnStop(s, ins_ok) ==
  IF s.session_active THEN
    LET session_end_time == StopEnd(s)
        duration == session_end_time - s.session_start_time
        s1 == IF Qualifies(duration)
              THEN SaveSession(s, s.session_start_time, session_end_time, duration, ins_ok)
              ELSE s
    IN  Log(ResetSession(s1), "session ended by stop")
  ELSE s

ReleaseCamera(s) ==
  IF s.camera THEN Log([s EXCEPT !.camera = FALSE], "camera.release") ELSE s

\* Mutant of StopTracker: the teardown runs whatever the phase.
StopTracker_unguarded(s, ins_ok) ==
  LET s1 == [s EXCEPT !.running = FALSE, !.paused = FALSE, !.pause_start_time = None]
      s2 == EndSessionOnStop(s1, ins_ok)
      s3 == ReleaseCamera(s2)
      s4 == CloseDb(s3)
      s5 == [s4 EXCEPT !.model = FALSE, !.status_label = "Stopped"]
      s6 == Refresh(s5)
  IN  [s6 EXCEPT !.display_total = s6.total_time_today]

\* Mutant of StopTracker: the store is closed before the open session is saved.
StopTracker_closesFirst(s, ins_ok) ==
  IF s.running \/ s.paused THEN
    LET s1 == [s EXCEPT !.running = FALSE, !.paused = FALSE, !.pause_start_time = None]
        s2 == CloseDb(s1)
        s3 == EndSessionOnStop(s2, ins_ok)
        s4 == ReleaseCamera(s3)
        s5 == [s4 EXCEPT !.model = FALSE, !.status_label = "Stopped"]
        s6 == Refresh(s5)
    IN  [s6 EXCEPT !.display_total = s6.total_time_today]
  ELSE s

StopTracker(s, ins_ok) ==
  IF s.running \/ s.paused THEN
    LET s1 == [s EXCEPT !.running = FALSE, !.paused = FALSE, !.pause_start_time = None]
        s2 == EndSessionOnStop(s1, ins_ok)
        s3 == ReleaseCamera(s2)
        s4 == CloseDb(s3)
        s5 == [s4 EXCEPT !.model = FALSE, !.status_label = "Stopped"]
        s6 == Refresh(s5)
    IN  [s6 EXCEPT !.display_total = s6.total_time_today]
  ELSE s

\* Mutant of DetectionDue: a run is due only after more than the interval.
DetectionDue_strict(s) == s.now - s.last_detection_run_time > s.detection_interval

\* ---------------------------------------------------------- update_frame
DetectionDue(s) == s.now - s.last_detection_run_time >= s.detection_interval

\* Mutant of ThresholdReached: no absence is ever long enough.
ThresholdReached_never(absence_duration) == absence_duration < 0

ThresholdReached(absence_duration) == absence_duration >= absence_threshold

\* Mutant of AbsenceEnd: the session ends when the threshold is confirmed.
AbsenceEnd_confirmed(s) == s.now

\* session_end_time = self.absence_start_time
AbsenceEnd(s) == s.absence_start_time

\* Mutant of OnDetected: a detection leaves detection_interval as it was.
OnDetected_keepsInterval(s) ==
  LET s1 == [s EXCEPT !.status_label = "Detected", !.absence_start_time = None]
  IN  IF ~s1.session_active
      THEN Log([s1 EXCEPT !.session_start_time = s1.now, !.session_active = TRUE],
               "session started")
      ELSE s1

\* Mutant of OnDetected: the pending absence survives a detection.
OnDetected_keepsAbsence(s) ==
  LET s1 == [s EXCEPT !.status_label = "Detected", !.detection_interval = FastInterval]
  IN  IF ~s1.session_active
      THEN Log([s1 EXCEPT !.session_start_time = s1.now, !.session_active = TRUE],
               "session started")
      ELSE s1

\* Person detected in this detection run.
OnDetected(s) ==
  LET s1 == [s EXCEPT !.status_label = "Detected", !.absence_start_time = None,
                      !.detection_interval = FastInterval]
  IN  IF ~s1.session_active
      THEN Log([s1 EXCEPT !.session_start_time = s1.now, !.session_active = TRUE],
               "session started")
      ELSE s1

\* Mutant of EndSessionOnAbsence: the row is written and the session stays open.
EndSessionOnAbsence_staysOpen(s, ins_ok) ==
  LET session_end_time == AbsenceEnd(s)
      duration == session_end_time - s.session_start_time
  IN  IF Qualifies(duration)
      THEN SaveSession(s, s.session_start_time, session_end_time, duration, ins_ok)
      ELSE s

\* Mutant of EndSessionOnAbsence: a session whose row could not be written stays open.
EndSessionOnAbsence_keepsUnsaved(s, ins_ok) ==
  LET session_end_time == AbsenceEnd(s)
      duration == session_end_time - s.session_start_time
      s1 == IF Qualifies(duration)
            THEN SaveSession(s, s.session_start_time, session_end_time, duration, ins_ok)
            ELSE s
  IN  IF Qualifies(duration) /\ s1.presence = s.presence THEN s1
      ELSE Log([ResetSession(s1) EXCEPT !.absence_start_time = None,
                                        !.detection_interval = SlowInterval],
               "session ended by absence")

EndSessionOnAbsence(s, ins_ok) ==
  LET session_end_time == AbsenceEnd(s)
      duration == session_end_time - s.session_start_time
      s1 == IF Qualifies(duration)
            THEN SaveSession(s, s.session_start_time, session_end_time, duration, ins_ok)
            ELSE s
      s2 == ResetSession(s1)
  IN  Log([s2 EXCEPT !.absence_start_time = None, !.detection_interval = SlowInterval],
          "session ended by absence")

\* Person not detected in this detection run.
OnNotDetected(s, ins_ok) ==
  LET s0 == [s EXCEPT !.status_label = "Not Detected"]
  IN  IF s0.session_active THEN
        LET s1 == IF s0.absence_start_time = None
                  THEN [s0 EXCEPT !.absence_start_time = s0.now]
                  ELSE s0
            absence_duration == s1.now - s1.absence_start_time
        IN  IF ThresholdReached(absence_duration) THEN EndSessionOnAbsence(s1, ins_ok) ELSE s1
      ELSE [s0 EXCEPT !.detection_interval = SlowInterval]

\* Mutant of DetectionRun: a run whose detector raised is dropped, not taken as absent.
DetectionRun_errorSkips(s, det, ins_ok) ==
  LET s1 == [s EXCEPT !.last_detection_run_time = s.now]
  IN  IF det = "error"
      THEN Log([s1 EXCEPT !.status_label = "Detection Error"], "model.track raised")
      ELSE IF det = "present" THEN OnDetected(Log(s1, "model.track present"))
      ELSE OnNotDetected(Log(s1, "model.track absent"), ins_ok)

\* One YOLO inference and the session logic that consumes its result.
DetectionRun(s, det, ins_ok) ==
  LET s1 == [s EXCEPT !.last_detection_run_time = s.now]
      s2 == IF det = "error"
            THEN Log([s1 EXCEPT !.status_label = "Detection Error"], "model.track raised")
            ELSE Log(s1, IF det = "present" THEN "model.track present"
                         ELSE "model.track absent")
      person_detected_in_this_run == det = "present"
  IN  IF person_detected_in_this_run THEN OnDetected(s2) ELSE OnNotDetected(s2, ins_ok)

\* "Update Current Session Timer Display" and "Update Total Time Today Display".
UpdateDisplay(s) ==
  LET s1 == IF s.session_active
            THEN [s EXCEPT !.current_session_duration = s.now - s.session_start_time]
            ELSE s
  IN  [s1 EXCEPT !.display_total =
         IF s1.session_active THEN s1.total_time_today + s1.current_session_duration
         ELSE s1.total_time_today]

After(s) == Log([s EXCEPT !.pending = @ + 1], "root.after")

\* Mutant of UpdateFrame: the callback reschedules itself also when the tracker is Stopped.
UpdateFrame_loopsWhenStopped(s, ret, det, ins_ok) ==
  LET e == Log(s, "update_frame")
  IN  IF ~e.running THEN After(e)
      ELSE IF e.paused THEN After(e)
      ELSE IF ret THEN
        LET s1 == Log(e, "camera.read")
            s2 == IF DetectionDue(s1) THEN DetectionRun(s1, det, ins_ok) ELSE s1
        IN  After(UpdateDisplay(s2))
      ELSE
        [StopTracker(Log(e, "camera.read failed"), ins_ok)
           EXCEPT !.status_label = "Camera Read Error"]

\* Mutant of UpdateFrame: a failed frame read is skipped and the loop goes on.
UpdateFrame_skipsBadFrame(s, ret, det, ins_ok) ==
  LET e == Log(s, "update_frame")
  IN  IF ~e.running THEN e
      ELSE IF e.paused THEN After(e)
      ELSE IF ret THEN
        LET s1 == Log(e, "camera.read")
            s2 == IF DetectionDue(s1) THEN DetectionRun(s1, det, ins_ok) ELSE s1
        IN  After(UpdateDisplay(s2))
      ELSE After(Log(e, "camera.read failed"))

\* Mutant of UpdateFrame: a tick of a Paused tracker is processed like a Running one.
UpdateFrame_ignoresPause(s, ret, det, ins_ok) ==
  LET e == Log(s, "update_frame")
  IN  IF ~e.running THEN e
      ELSE IF ret THEN
        LET s1 == Log(e, "camera.read")
            s2 == IF DetectionDue(s1) THEN DetectionRun(s1, det, ins_ok) ELSE s1
        IN  After(UpdateDisplay(s2))
      ELSE
        [StopTracker(Log(e, "camera.read failed"), ins_ok)
           EXCEPT !.status_label = "Camera Read Error"]

UpdateFrame(s, ret, det, ins_ok) ==
  LET e == Log(s, "update_frame")
  IN  IF ~e.running THEN e
      ELSE IF e.paused THEN After(e)
      ELSE IF ret THEN
        LET s1 == Log(e, "camera.read")
            s2 == IF DetectionDue(s1) THEN DetectionRun(s1, det, ins_ok) ELSE s1
        IN  After(UpdateDisplay(s2))
      ELSE
        [StopTracker(Log(e, "camera.read failed"), ins_ok)
           EXCEPT !.status_label = "Camera Read Error"]

\* --------------------------------------------------- pause_resume_tracker
PauseDuration(s) ==
  IF s.pause_start_time # None THEN s.now - s.pause_start_time ELSE 0

\* Mutant of ShiftTimers: the timers are moved back by the pause, not forward.
ShiftTimers_backwards(s, pause_duration) ==
  LET s1 == IF s.session_active
            THEN [s EXCEPT !.session_start_time = @ - pause_duration]
            ELSE s
      s2 == IF s1.absence_start_time # None
            THEN [s1 EXCEPT !.absence_start_time = @ - pause_duration]
            ELSE s1
  IN  [s2 EXCEPT !.last_detection_run_time = @ - pause_duration]

\* Mutant of ShiftTimers: session_start_time is not re-anchored.
ShiftTimers_notSession(s, pause_duration) ==
  LET s2 == IF s.absence_start_time # None
            THEN [s EXCEPT !.absence_start_time = @ + pause_duration]
            ELSE s
  IN  [s2 EXCEPT !.last_detection_run_time = @ + pause_duration]

ShiftTimers(s, pause_duration) ==
  LET s1 == IF s.session_active
            THEN [s EXCEPT !.session_start_time = @ + pause_duration]
            ELSE s
      s2 == IF s1.absence_start_time # None
            THEN [s1 EXCEPT !.absence_start_time = @ + pause_duration]
            ELSE s1
  IN  [s2 EXCEPT !.last_detection_run_time = @ + pause_duration]

Pause(s) ==
  [s EXCEPT !.paused = TRUE, !.pause_start_time = s.now, !.status_label = "Paused"]

Resume(s, ret, det, ins_ok) ==
  LET s1 == ShiftTimers(s, PauseDuration(s))
      s2 == [s1 EXCEPT !.paused = FALSE, !.pause_start_time = None]
  IN  UpdateFrame(s2, ret, det, ins_ok)

PauseResumeTracker(s, ret, det, ins_ok) ==
  LET e == Log(s, "pause_resume_tracker")
  IN  IF ~e.running THEN e
      ELSE IF ~e.paused THEN Pause(e)
      ELSE Resume(e, ret, det, ins_ok)

\* ---------------------------------------------------------- start_tracker
\* update_gui_state() when neither running nor paused.
GuiStopped(s) == [s EXCEPT !.status_label = "Stopped"]

FreshStart(s) ==
  LET s1 == [s EXCEPT !.session_active = FALSE, !.session_start_time = None,
                      !.current_session_duration = 0, !.absence_start_time = None,
                      !.last_detection_run_time = s.now,
                      !.detection_interval = FastInterval]
      s2 == Refresh(s1)
  IN  [s2 EXCEPT !.display_total = s2.total_time_today]

StartTracker(s, db_ok, model_ok, cam_ok, ret, det, ins_ok) ==
  LET e == Log(s, "start_tracker")
  IN  IF ~e.running /\ ~e.paused THEN
        LET s1 == [e EXCEPT !.running = TRUE, !.paused = FALSE, !.pause_start_time = None]
            s2 == IF ~s1.conn THEN ConnectDb(s1, db_ok) ELSE s1
        IN  IF ~s2.conn THEN GuiStopped([s2 EXCEPT !.running = FALSE])
            ELSE IF ~model_ok THEN
              GuiStopped(CloseDb(Log([s2 EXCEPT !.running = FALSE], "YOLO failed")))
            ELSE
              LET s3 == Log([s2 EXCEPT !.model = TRUE], "YOLO")
              IN  IF ~cam_ok THEN
                    [GuiStopped(CloseDb(Log([s3 EXCEPT !.running = FALSE, !.model = FALSE],
                                             "VideoCapture failed")))
                       EXCEPT !.status_label = "Camera Error"]
                  ELSE
                    UpdateFrame(FreshStart(Log([s3 EXCEPT !.camera = TRUE], "VideoCapture")),
                                ret, det, ins_ok)
      ELSE e

\* ------------------------------------------------------------ __init__
InitApp(db_ok) ==
  LET s0 == [now |-> Boot, running |-> FALSE, paused |-> FALSE, pause_start_time |-> None,
             camera |-> FALSE, model |-> FALSE, conn |-> FALSE,
             session_active |-> FALSE, session_start_time |-> None,
             current_session_duration |-> 0,
             last_detection_run_time |-> Boot, detection_interval |-> FastInterval,
             absence_start_time |-> None, total_time_today |-> 0,
             status_label |-> "Stopped", display_total |-> 0,
             presence |-> <<>>, pending |-> 0, calls |-> <<>>]
      s1 == Refresh(ConnectDb(s0, db_ok))
  IN  [s1 EXCEPT !.display_total = s1.total_time_today]

\* ------------------------------------------------------------ the machine
Cur ==
  [now |-> now, running |-> running, paused |-> paused,
   pause_start_time |-> pause_start_time, camera |-> camera, model |-> model,
   conn |-> conn, session_active |-> session_active,
   session_start_time |-> session_start_time,
   current_session_duration |-> current_session_duration,
   last_detection_run_time |-> last_detection_run_time,
   detection_interval |-> detection_interval,
   absence_start_time |-> absence_start_time, total_time_today |-> total_time_today,
   status_label |-> status_label, display_total |-> display_total,
   presence |-> presence, pending |-> pending, calls |-> <<>>]

NoEvent ==
  [closed |-> FALSE, debounced |-> FALSE, resumed |-> FALSE, at |-> None,
   paused |-> FALSE, pause_start_time |-> None, session_start_time |-> None,
   absence_start_time |-> None, last_detection_run_time |-> None,
   run_time |-> 0, absence_run_time |-> None, paused_time |-> 0, rows |-> 0]

\* The program's variables take the values of the handler's result (evaluated once, as
\* t); the history variables follow.
Becomes(result) ==
  \E t \in {result} :
    /\ now' = t.now
    /\ running' = t.running
    /\ paused' = t.paused
    /\ pause_start_time' = t.pause_start_time
    /\ camera' = t.camera
    /\ model' = t.model
    /\ conn' = t.conn
    /\ session_active' = t.session_active
    /\ session_start_time' = t.session_start_time
    /\ current_session_duration' = t.current_session_duration
    /\ last_detection_run_time' = t.last_detection_run_time
    /\ detection_interval' = t.detection_interval
    /\ absence_start_time' = t.absence_start_time
    /\ total_time_today' = t.total_time_today
    /\ status_label' = t.status_label
    /\ display_total' = t.display_total
    /\ presence' = t.presence
    /\ pending' = t.pending
    /\ calls' = t.calls
    /\ session_run_time' = IF session_active /\ t.session_active THEN session_run_time ELSE 0
    /\ session_paused_time' =
         IF session_active /\ t.session_active THEN session_paused_time ELSE 0
    /\ absence_run_time' =
         IF t.absence_start_time = None THEN None
         ELSE IF absence_start_time = None THEN session_run_time
         ELSE absence_run_time
    /\ person_detected_in_last_run' =
         IF ~t.running THEN "none"
         ELSE IF \E i \in DOMAIN t.calls : t.calls[i] = "model.track present" THEN "yes"
         ELSE IF \E i \in DOMAIN t.calls :
                   t.calls[i] \in {"model.track absent", "model.track raised"} THEN "no"
         ELSE person_detected_in_last_run
    /\ event' =
         LET closes  == session_active /\ ~t.session_active
             cancels == session_active /\ absence_start_time # None
                        /\ t.session_active /\ t.absence_start_time = None
             resumes == paused /\ t.calls[1] = "pause_resume_tracker"
         IN  IF closes \/ cancels \/ resumes
             THEN [closed |-> closes, debounced |-> cancels, resumed |-> resumes,
                   at |-> now, paused |-> paused, pause_start_time |-> pause_start_time,
                   session_start_time |-> session_start_time,
                   absence_start_time |-> absence_start_time,
                   last_detection_run_time |-> last_detection_run_time,
                   run_time |-> session_run_time, absence_run_time |-> absence_run_time,
                   paused_time |-> session_paused_time, rows |-> Len(presence)]
             ELSE NoEvent

Init ==
  \E db_ok \in BOOLEAN :
    LET t == InitApp(db_ok) IN
      /\ now = t.now
      /\ running = t.running
      /\ paused = t.paused
      /\ pause_start_time = t.pause_start_time
      /\ camera = t.camera
      /\ model = t.model
      /\ conn = t.conn
      /\ session_active = t.session_active
      /\ session_start_time = t.session_start_time
      /\ current_session_duration = t.current_session_duration
      /\ last_detection_run_time = t.last_detection_run_time
      /\ detection_interval = t.detection_interval
      /\ absence_start_time = t.absence_start_time
      /\ total_time_today = t.total_time_today
      /\ status_label = t.status_label
      /\ display_total = t.display_total
      /\ presence = t.presence
      /\ pending = t.pending
      /\ calls = t.calls
      /\ session_run_time = 0
      /\ session_paused_time = 0
      /\ absence_run_time = None
      /\ person_detected_in_last_run = "none"
      /\ event = NoEvent

Followed == Len(presence) < MaxRows

\* The clock moves between handlers by d tenths of a second.
Elapse(d) ==
  /\ now' = now + d
  /\ session_run_time' =
       IF session_active /\ running /\ ~paused THEN session_run_time + d
       ELSE session_run_time
  /\ session_paused_time' =
       IF session_active /\ paused THEN session_paused_time + d
       ELSE session_paused_time
  /\ calls' = <<>>
  /\ event' = NoEvent
  /\ UNCHANGED <<running, paused, pause_start_time, camera, model, conn,
                 session_active, session_start_time, current_session_duration,
                 last_detection_run_time, detection_interval, absence_start_time,
                 total_time_today, status_label, display_total, presence, pending,
                 absence_run_time, person_detected_in_last_run>>

Advance ==
  /\ Followed
  /\ \E d \in {1, TicksPerSecond} :
       /\ now + d <= Horizon
       /\ d = 1 => now % TicksPerSecond < MaxFine
       /\ Elapse(d)

\* What the collaborators may answer in a step that begins in the current state.
\* An answer is drawn only where the handler asks for it: the frame source when a
\* frame is read, the detector when a detection run is due, the store when a
\* session is open to be saved.
Frames == BOOLEAN
Detected(s) == IF DetectionDue(s) THEN Detections ELSE {"absent"}
Inserts == IF session_active THEN BOOLEAN ELSE {TRUE}

\* A callback scheduled by root.after(30, self.update_frame) fires.
Tick ==
  /\ Followed
  /\ pending > 0
  /\ LET s == [Cur EXCEPT !.pending = @ - 1] IN
       IF running /\ ~paused
       THEN \E ret \in Frames, det \in Detected(s), ins_ok \in Inserts :
              Becomes(UpdateFrame(s, ret, det, ins_ok))
       ELSE Becomes(UpdateFrame(s, TRUE, "absent", TRUE))

\* The Start button (enabled by update_gui_state only in state Stopped).
Start ==
  /\ Followed
  /\ ~running /\ ~paused
  /\ \E db_ok \in BOOLEAN, model_ok \in BOOLEAN, cam_ok \in BOOLEAN, ret \in Frames :
       LET t == StartTracker(Cur, db_ok, model_ok, cam_ok, ret, "absent", TRUE)
       IN  t.pending <= MaxPending /\ Becomes(t)

\* The Pause/Resume button (enabled by update_gui_state in states Running and Paused).
PauseResume ==
  /\ Followed
  /\ running
  /\ IF paused
     THEN LET s == ShiftTimers(Cur, PauseDuration(Cur)) IN
            \E ret \in Frames, det \in Detected(s), ins_ok \in Inserts :
              LET t == PauseResumeTracker(Cur, ret, det, ins_ok)
              IN  t.pending <= MaxPending /\ Becomes(t)
     ELSE Becomes(PauseResumeTracker(Cur, TRUE, "absent", TRUE))

\* stop_tracker, called by the Stop button and by on_closing.
Stop ==
  /\ Followed
  /\ \E ins_ok \in Inserts :
       Becomes(StopTracker(Log(Cur, "stop_tracker"), ins_ok))

Next == Advance \/ Tick \/ Start \/ PauseResume \/ Stop

Spec == Init /\ [][Next]_vars

\* The same machine followed for LongSeconds, long enough for the slow detection
\* interval to elapse: the clock moves by whole seconds, Start is pressed before the
\* clock has moved, and the run is followed until LongRows rows are written.
LongFollowed == Len(presence) < LongRows

AdvanceSecond ==
  /\ LongFollowed
  /\ now + TicksPerSecond <= LongHorizon
  /\ Elapse(TicksPerSecond)

TickLong == LongFollowed /\ Tick
StartLong == LongFollowed /\ now = Boot /\ Start
PauseResumeLong == LongFollowed /\ PauseResume
StopLong == LongFollowed /\ Stop

NextLong == AdvanceSecond \/ TickLong \/ StartLong \/ PauseResumeLong \/ StopLong

SpecLong == Init /\ [][NextLong]_vars

\* The machine of SpecLong followed for LiveSeconds with the scheduling of the Tk
\* main loop: a pending root.after(30, ...) callback fires well within a second, so
\* the clock of a Running tracker moves on by a second only after update_frame has
\* run.  The clock keeps moving, and a pending callback keeps firing: fairness is
\* asked of the callback that gets its frame and finds nobody (or finds the tracker
\* Paused or Stopped), so that no failure and no detection is ever forced.
AdvancePrompt ==
  /\ LongFollowed
  /\ now + TicksPerSecond <= LiveHorizon
  /\ (running /\ ~paused /\ pending > 0) =>
       \E i \in DOMAIN calls : calls[i] = "update_frame"
  /\ Elapse(TicksPerSecond)

\* A callback left pending fires on a Stopped tracker; these are followed also after
\* the last row that LongRows allows has been written.
TickStopped == ~running /\ ~paused /\ Tick

NextLive ==
  AdvancePrompt \/ TickLong \/ TickStopped \/ StartLong \/ PauseResumeLong \/ StopLong

TickQuiet ==
  /\ TickLong
  /\ \A i \in DOMAIN calls' : calls'[i] \notin {"camera.read failed", "model.track present"}

SpecLive ==
  /\ Init /\ [][NextLive]_vars
  /\ WF_vars(AdvancePrompt) /\ WF_vars(TickQuiet) /\ WF_vars(TickStopped)

\* ------------------------------------------------------------- properties
Called(c) == \E i \in DOMAIN calls : calls[i] = c
LastRow == presence[Len(presence)]
Inserted == Called("INSERT")
ByTimer == calls # <<>> /\ calls[1] = "update_frame"
ByStopButton == calls # <<>> /\ calls[1] = "stop_tracker"
ByPauseButton == calls # <<>> /\ calls[1] = "pause_resume_tracker"
ByStartButton == calls # <<>> /\ calls[1] = "start_tracker"
ByAbsence == Called("session ended by absence")
ByStop == Called("session ended by stop")
RanDetection ==
  Called("model.track present") \/ Called("model.track absent")
  \/ Called("model.track raised")
RanAbsent == Called("model.track absent") \/ Called("model.track raised")

\* The shift a step applies to the timestamps it starts from: now - pause_start_time
\* when the step resumes a Paused tracker, nothing otherwise.
StepShift == IF paused /\ ByPauseButton' THEN now' - pause_start_time ELSE 0

\* C1 (debounce): with a session open and an absence pending for less than
\* absence_threshold, a detection run that returns present keeps the session open
\* with the same (re-anchored, if the run is part of a resume) session_start_time,
\* clears absence_start_time, writes no row and leaves the tracker Running.
C1_Debounce ==
  [][(/\ running /\ session_active
      /\ absence_start_time # None
      /\ now' - (absence_start_time + StepShift) < absence_threshold
      /\ Called("model.track present")')
     => (/\ session_active'
         /\ session_start_time' = session_start_time + StepShift
         /\ absence_start_time' = None
         /\ presence' = presence
         /\ running' /\ ~paused')]_vars

\* C1 witness: present, absent one second later, present one second after that:
\* the absence was cancelled and the session that began two seconds ago is still open.
C1_Witness ==
  /\ ByTimer /\ Called("model.track present")
  /\ event.debounced /\ ~event.closed
  /\ event.absence_start_time = event.session_start_time + TicksPerSecond
  /\ now = event.session_start_time + 2 * TicksPerSecond
  /\ session_active /\ session_start_time = event.session_start_time
  /\ absence_start_time = None /\ presence = <<>>

\* C2 (backdating): when a detection run finds nobody (or fails) while a session is
\* open, the session is closed exactly when now minus the beginning of the absence
\* streak has reached absence_threshold (inclusive); the row written then ends at the
\* beginning of the streak, not at now, and its duration is the beginning of the
\* streak minus session_start_time.  Otherwise the session stays open, the streak
\* keeps its beginning and no row is written.
C2_Backdating ==
  [][(running /\ session_active /\ RanAbsent')
     => LET streak == IF absence_start_time = None THEN now'
                      ELSE absence_start_time + StepShift
            start  == session_start_time + StepShift
        IN  IF now' - streak >= absence_threshold
            THEN /\ ~session_active' /\ ByAbsence'
                 /\ Inserted' =>
                      /\ Len(presence') = Len(presence) + 1
                      /\ LastRow'.start_time = StrfTime(start)
                      /\ LastRow'.end_time = StrfTime(streak)
                      /\ LastRow'.duration = streak - start
                 /\ ~Inserted' => presence' = presence
            ELSE /\ session_active' /\ absence_start_time' = streak
                 /\ session_start_time' = start
                 /\ presence' = presence]_vars

\* C2 witness: present at t, absent at t+1 s, ..., t+4 s: the run at t+4 s closes the
\* session and the row is [t, t+1 s), one second long.
C2_Witness ==
  /\ ByTimer /\ ByAbsence /\ Inserted /\ event.closed
  /\ event.absence_start_time = event.session_start_time + TicksPerSecond
  /\ now = event.absence_start_time + absence_threshold
  /\ LastRow.end_time = StrfTime(event.absence_start_time)
  /\ LastRow.end_time < StrfTime(now)
  /\ LastRow.duration = TicksPerSecond

\* The Running-phase clock between the beginning of the closed session and the point
\* where it was ended: the beginning of the absence streak, or the stop.
RunningTimeOfClosed ==
  IF ByAbsence THEN event.absence_run_time ELSE event.run_time

\* C3 (pause correction): a session closed while the tracker is Running, by stop or
\* by the absence rule, is written with a duration equal to the clock that elapsed in
\* phase Running between its beginning and its end point, however often it was paused.
C3_PausedTimeNotCounted ==
  (event.closed /\ Inserted /\ ~(ByStopButton /\ event.paused))
    => LastRow.duration = RunningTimeOfClosed

\* C3 witness: a session paused for two seconds or more, resumed, and then stopped
\* while Running, written with its Running time only.
C3_Witness ==
  /\ event.closed /\ Inserted /\ ByStopButton /\ ~event.paused
  /\ event.paused_time >= 2 * TicksPerSecond
  /\ event.run_time >= TicksPerSecond
  /\ LastRow.duration = event.run_time
  /\ LastRow.duration < event.run_time + event.paused_time

\* C4 (no paused time in any persisted duration): every row written, also by a stop
\* pressed while Paused, has a duration equal to the Running-phase clock of its session.
C4_NoPausedTimeEver ==
  (event.closed /\ Inserted) => LastRow.duration = RunningTimeOfClosed

\* C5 (resume re-anchors and changes nothing else): a resume adds the same
\* shift = now - pause_start_time to session_start_time (session open),
\* absence_start_time (if set) and last_detection_run_time, and leaves session_active,
\* detection_interval and the presence table as they were.
C5_ResumeOnlyShifts ==
  [][(paused /\ ByPauseButton')
     => LET shift == now' - pause_start_time
        IN  /\ session_active => session_start_time' = session_start_time + shift
            /\ absence_start_time # None =>
                 absence_start_time' = absence_start_time + shift
            /\ last_detection_run_time' = last_detection_run_time + shift
            /\ session_active' = session_active
            /\ detection_interval' = detection_interval
            /\ presence' = presence]_vars

\* C6 (rows are consistent): every row of the presence table is longer than
\* MinDuration, ends after it starts, and stores the duration that its own
\* start_time and end_time give.
C6_RowsConsistent ==
  \A i \in DOMAIN presence :
    /\ presence[i].duration > MinDuration
    /\ presence[i].end_time > presence[i].start_time
    /\ presence[i].duration = (presence[i].end_time - presence[i].start_time) * TicksPerSecond

\* The sum of the durations of the rows whose start_time is on today's date.
PersistedToday == SumDuration(presence, DateOf(StrfTime(now)))
\* The step read a frame: update_frame ran as a Running tick to its end.
RunningTick == Called("camera.read")

\* C7 (display total): at the end of every Running tick the number shown as today's
\* total is the persisted sum for today, plus now - session_start_time when a session
\* is open.
C7_DisplayTotal ==
  RunningTick =>
    display_total = PersistedToday + (IF session_active THEN now - session_start_time ELSE 0)

\* C8 (no double count, no loss): right after a step that closed a session and wrote
\* its row, by the absence rule or by stop, the total held and the total shown are
\* the persisted sum for today.
C8_TotalAfterClose ==
  (event.closed /\ Inserted) =>
    /\ total_time_today = PersistedToday
    /\ display_total = PersistedToday

\* What stop_tracker found as the beginning of the session it closed: the value the
\* step started from, re-anchored when the step was a resume.
ClosedStart ==
  event.session_start_time
    + (IF event.resumed THEN event.at - event.pause_start_time ELSE 0)
\* The step closed a session in stop_tracker, and the session was long enough to save.
StopClosedQualifying == event.closed /\ ByStop /\ event.at - ClosedStart > MinDuration

\* C9 (stop closes at now): a stop that finds a session open leaves session_active
\* false; when now - session_start_time > MinDuration it writes one row that ends at
\* now (not at absence_start_time, however long an absence has been pending) with
\* duration now - session_start_time, unless the insert fails; otherwise it writes
\* nothing.
C9_StopClosesAtNow ==
  (event.closed /\ ByStop) =>
    /\ ~session_active /\ session_start_time = None
    /\ event.at = now
    /\ IF StopClosedQualifying
       THEN \/ /\ Inserted
               /\ Len(presence) = event.rows + 1
               /\ LastRow = [start_time |-> StrfTime(ClosedStart),
                             end_time |-> StrfTime(now),
                             duration |-> now - ClosedStart]
            \/ /\ Called("INSERT failed")
               /\ Len(presence) = event.rows
       ELSE ~Inserted /\ ~Called("INSERT failed") /\ Len(presence) = event.rows

\* C9 witness: Stop pressed while an absence has been pending for the whole
\* threshold without a run confirming it; the row ends at now, after the second in
\* which the absence began.
C9_Witness ==
  /\ event.closed /\ ByStopButton /\ Inserted
  /\ event.absence_start_time # None
  /\ now - event.absence_start_time >= absence_threshold
  /\ LastRow.end_time = StrfTime(now)
  /\ LastRow.end_time > StrfTime(event.absence_start_time)
  /\ LastRow.duration = now - event.session_start_time
  /\ ~session_active

\* C10 (final write before teardown): whenever stop_tracker closes a session that is
\* long enough to save, the insert is issued on a connected store and the connection
\* is closed only afterwards; a successful insert leaves its row in the table.
C10_WriteBeforeClose ==
  StopClosedQualifying =>
    /\ ~Called("not connected")
    /\ \E i, j \in DOMAIN calls :
         /\ i < j
         /\ calls[i] \in {"INSERT", "INSERT failed"}
         /\ calls[j] = "conn.close"
    /\ Inserted => Len(presence) = event.rows + 1
    /\ ~conn

\* C10 witness: a stop wrote the row of the open session and then closed the store.
C10_Witness ==
  /\ StopClosedQualifying /\ ByStopButton
  /\ Inserted /\ Called("conn.close")
  /\ Len(presence) = event.rows + 1
  /\ ~conn

\* C11 (stop when Stopped): stop_tracker called while the tracker is neither running
\* nor paused changes no field of the tracker, writes no row, and neither releases
\* nor queries any resource: the handler's entry is the only call of the step.
C11_StopWhenStopped ==
  [][(~running /\ ~paused /\ ByStopButton')
     => (UNCHANGED prog /\ calls' = <<"stop_tracker">>)]_vars

\* C11 witness: a second stop after a stop that wrote a row; the store stays closed,
\* the row stays alone and nothing but the handler itself was called.
C11_Witness ==
  /\ calls = <<"stop_tracker">>
  /\ ~running /\ ~paused /\ ~conn /\ ~camera /\ ~model
  /\ status_label = "Stopped"
  /\ Len(presence) = 1

\* C12 (pause when Paused): the pause control used while the tracker is already
\* Paused leaves it Paused, keeps pause_start_time at the time of the first pause and
\* changes none of the tracker's timestamps.
C12_PauseWhenPaused ==
  [][(running /\ paused /\ ByPauseButton')
     => (/\ paused' /\ running'
         /\ pause_start_time' = pause_start_time
         /\ UNCHANGED <<session_start_time, absence_start_time,
                        last_detection_run_time>>)]_vars

\* C13 (Paused tick): a timer callback that finds the tracker Paused reads no frame
\* and runs no detection; session_active, session_start_time, absence_start_time,
\* last_detection_run_time, detection_interval and the presence table are unchanged,
\* as is every other field: the callback only schedules its successor.
C13_PausedTickIdle ==
  [][(running /\ paused /\ ByTimer')
     => (/\ UNCHANGED <<session_active, session_start_time, absence_start_time,
                        last_detection_run_time, detection_interval, presence>>
         /\ UNCHANGED prog
         /\ calls' = <<"update_frame", "root.after">>)]_vars

\* C13 witness: a Paused tick with a session open and an absence pending, at a time
\* when a detection run would be due; the next callback is scheduled and nothing ran.
C13_Witness ==
  /\ running /\ paused
  /\ calls = <<"update_frame", "root.after">>
  /\ session_active /\ absence_start_time # None
  /\ now - last_detection_run_time >= detection_interval
  /\ pending > 0

\* The values the program's variables would have after the step that is being taken
\* (a timer callback, or a resume) if its detector had answered absent.
HadItBeenAbsent(ins_ok) ==
  IF ByPauseButton' THEN PauseResumeTracker(Cur, TRUE, "absent", ins_ok)
  ELSE UpdateFrame([Cur EXCEPT !.pending = @ - 1], TRUE, "absent", ins_ok)

\* C14 (detector error is absence): a detection run whose detector raises makes the
\* transition of a run that finds nobody.  With no session open only
\* detection_interval changes, to SlowInterval.  With a session open the absence
\* streak begins now or continues, and once it has lasted absence_threshold the
\* session is closed and written as ending where the streak began.  The tracker stays
\* Running, and every field ends as it would have had the detector answered absent.
C14_ErrorAsAbsent ==
  [][Called("model.track raised")'
     => LET streak == IF absence_start_time = None THEN now'
                      ELSE absence_start_time + StepShift
            start  == session_start_time + StepShift
        IN  /\ running' /\ ~paused'
            /\ IF ~session_active
               THEN /\ detection_interval' = SlowInterval
                    /\ UNCHANGED <<session_active, session_start_time,
                                   absence_start_time, presence>>
               ELSE IF now' - streak >= absence_threshold
               THEN /\ ~session_active' /\ session_start_time' = None
                    /\ absence_start_time' = None
                    /\ detection_interval' = SlowInterval
                    /\ \/ /\ Inserted'
                          /\ presence' = Append(presence, Row(start, streak, streak - start))
                       \/ /\ ~Inserted' /\ presence' = presence
               ELSE /\ session_active' /\ session_start_time' = start
                    /\ absence_start_time' = streak
                    /\ UNCHANGED <<detection_interval, presence>>
            /\ \E ins_ok \in BOOLEAN :
                 \E t \in {HadItBeenAbsent(ins_ok)} :
                     prog' = <<t.now, t.running, t.paused, t.pause_start_time, t.camera,
                               t.model, t.conn, t.session_active, t.session_start_time,
                               t.current_session_duration, t.last_detection_run_time,
                               t.detection_interval, t.absence_start_time,
                               t.total_time_today, t.status_label, t.display_total,
                               t.presence, t.pending>>]_vars

\* C14 witness: a run whose detector raised confirmed an absence that had lasted
\* absence_threshold; the session was closed and written as ending where the
\* absence began, and the tracker runs on at the slow interval.
C14_Witness ==
  /\ Called("model.track raised") /\ ByAbsence /\ Inserted
  /\ event.closed /\ event.absence_start_time # None
  /\ now - event.absence_start_time >= absence_threshold
  /\ LastRow.end_time = StrfTime(event.absence_start_time)
  /\ LastRow.end_time < StrfTime(now)
  /\ running /\ ~paused /\ ~session_active
  /\ detection_interval = SlowInterval

\* C15 (detector error is reported): at the end of a step whose detector raised, the
\* status label shows "Detection Error", not the text shown after a run that found
\* nobody.
C15_ErrorStatus ==
  Called("model.track raised") =>
    status_label = "Detection Error" /\ status_label # "Not Detected"

\* C16 (frame read failure): a step of a Running tracker whose camera.read fails
\* ends Stopped with camera, model and store released and no callback scheduled by
\* it; a session open at that point is closed at now and, when longer than
\* MinDuration, written with end_time now and duration now - session_start_time
\* (unless the insert fails); the status left is "Camera Read Error", not "Stopped".
C16_ReadFailureStops ==
  Called("camera.read failed") =>
    /\ ~running /\ ~paused /\ pause_start_time = None
    /\ ~session_active /\ session_start_time = None
    /\ ~camera /\ ~model /\ ~conn
    /\ Called("camera.release") /\ Called("conn.close")
    /\ ~Called("root.after")
    /\ status_label = "Camera Read Error" /\ status_label # "Stopped"
    /\ IF event.closed
       THEN /\ ByStop /\ event.at = now
            /\ IF StopClosedQualifying
               THEN \/ /\ Inserted
                       /\ presence = SubSeq(presence, 1, event.rows)
                                     \o <<Row(ClosedStart, now, now - ClosedStart)>>
                    \/ /\ Called("INSERT failed") /\ ~Inserted
                       /\ Len(presence) = event.rows
               ELSE ~Inserted /\ ~Called("INSERT failed")
       ELSE ~Inserted /\ ~Called("INSERT failed") /\ ~ByStop

\* C16 witness: a timer callback of a Running tracker with a session open for a
\* second or more could not read a frame; the session was written as ending now,
\* although an absence was pending, and the tracker is Stopped with the error status.
C16_Witness ==
  /\ ByTimer /\ Called("camera.read failed")
  /\ event.closed /\ Inserted
  /\ event.absence_start_time # None /\ event.absence_start_time < now
  /\ LastRow.end_time = StrfTime(now)
  /\ LastRow.duration = now - event.session_start_time
  /\ LastRow.duration >= TicksPerSecond
  /\ ~running /\ ~paused /\ ~session_active
  /\ status_label = "Camera Read Error"

\* The values the program's variables would have after the step that is being taken
\* (stop, a timer callback, or a resume) if, with the same frame and the same
\* detector answer, the insert had succeeded.
HadItBeenSaved ==
  LET ret == ~Called("camera.read failed")'
      det == IF Called("model.track present")' THEN "present"
             ELSE IF Called("model.track raised")' THEN "error" ELSE "absent"
  IN  IF ByStopButton' THEN StopTracker(Log(Cur, "stop_tracker"), TRUE)
      ELSE IF ByPauseButton' THEN PauseResumeTracker(Cur, ret, det, TRUE)
      ELSE UpdateFrame([Cur EXCEPT !.pending = @ - 1], ret, det, TRUE)

\* C17 (failed write): when the insert fails, or the store is not connected, while a
\* session is being closed by the absence rule or by a stop, the session is closed in
\* memory all the same (session_active false, session_start_time None; after an
\* absence close also absence_start_time None and detection_interval SlowInterval),
\* every in-memory field ends as it would have after a successful insert, the
\* presence table is unchanged, the total for today does not grow, and a tracker
\* closing a session by the absence rule keeps running.
C17_FailedWriteStillCloses ==
  [][(Called("INSERT failed")' \/ Called("not connected")')
     => /\ session_active /\ ~session_active'
        /\ session_start_time' = None /\ current_session_duration' = 0
        /\ ByAbsence' \/ ByStop'
        /\ ByAbsence' =>
             /\ absence_start_time' = None
             /\ detection_interval' = SlowInterval
             /\ running' /\ ~paused' /\ camera' /\ model' /\ conn'
             /\ Called("root.after")'
        /\ presence' = presence /\ ~Inserted'
        /\ SumDuration(presence', DateOf(StrfTime(now')))
             <= SumDuration(presence, DateOf(StrfTime(now)))
        /\ total_time_today' <= total_time_today
        /\ \E t \in {HadItBeenSaved} :
               /\ Len(t.presence) = Len(presence) + 1
               /\ <<running', paused', pause_start_time', camera', model', conn',
                    session_active', session_start_time', current_session_duration',
                    last_detection_run_time', detection_interval', absence_start_time',
                    status_label', pending'>>
                  = <<t.running, t.paused, t.pause_start_time, t.camera, t.model, t.conn,
                      t.session_active, t.session_start_time, t.current_session_duration,
                      t.last_detection_run_time, t.detection_interval,
                      t.absence_start_time, t.status_label, t.pending>>]_vars

\* C17 witness: the insert failed when a timer callback closed a session by the
\* absence rule; the session is closed, the table has the rows it had, and the
\* tracker is Running at the slow interval with its next callback scheduled.
C17_Witness ==
  /\ ByTimer /\ ByAbsence /\ Called("INSERT failed")
  /\ event.closed /\ Len(presence) = event.rows
  /\ ~session_active /\ session_start_time = None /\ absence_start_time = None
  /\ detection_interval = SlowInterval
  /\ running /\ ~paused /\ conn /\ Called("root.after")

\* C18 (adaptive interval): in every state of a Running tracker between two handlers,
\* detection_interval is FastInterval when a session is open, FastInterval when the
\* last detection run found a person, and SlowInterval when no session is open and
\* the last detection run found nobody.
C18_AdaptiveInterval ==
  (running /\ ~paused) =>
    /\ session_active => detection_interval = FastInterval
    /\ person_detected_in_last_run = "yes" => detection_interval = FastInterval
    /\ (~session_active /\ person_detected_in_last_run = "no") =>
         detection_interval = SlowInterval

\* C18 witness: a Running tracker with no session open whose last detection run found
\* nobody has waited the whole slow interval since that run, so the next callback
\* runs detection again.
C18_Witness ==
  /\ running /\ ~paused /\ ~session_active
  /\ person_detected_in_last_run = "no"
  /\ detection_interval = SlowInterval
  /\ now - last_detection_run_time >= SlowInterval
  /\ pending > 0

\* A timestamp the step starts from, re-anchored when the step resumes a Paused tracker.
Shifted(x) == IF x = None THEN None ELSE x + StepShift

\* C20 (detection cadence): when update_frame of a Running tracker has read a frame,
\* it runs detection exactly when now - last_detection_run_time >= detection_interval;
\* a run sets last_detection_run_time to now whatever the detector does, also when it
\* raises; without a run session_active, session_start_time, absence_start_time,
\* last_detection_run_time and detection_interval stay as they were.
C20_DetectionCadence ==
  [][(running /\ Called("camera.read")')
     => /\ RanDetection' <=>
             now' - Shifted(last_detection_run_time) >= detection_interval
        /\ RanDetection' => last_detection_run_time' = now'
        /\ ~RanDetection' =>
             /\ session_active' = session_active
             /\ session_start_time' = Shifted(session_start_time)
             /\ absence_start_time' = Shifted(absence_start_time)
             /\ last_detection_run_time' = Shifted(last_detection_run_time)
             /\ detection_interval' = detection_interval
             /\ presence' = presence]_vars

\* C20 witness: a timer callback ran detection with a session open, the detector
\* raised, and last_detection_run_time is the time of that run, which also began the
\* absence streak.
C20_Witness ==
  /\ ByTimer /\ RunningTick /\ Called("model.track raised")
  /\ last_detection_run_time = now
  /\ running /\ ~paused /\ session_active
  /\ absence_start_time = now /\ session_start_time < now

\* C21 (no absence without a session): in every state, Stopped included,
\* absence_start_time is None whenever session_active is false; in particular after
\* a stop that closed a session with an absence pending.
C21_AbsenceOnlyInSession ==
  ~session_active => absence_start_time = None

\* C22 (session_start_time iff session_active): in every state between two handlers
\* session_start_time holds a timestamp exactly when session_active is true.
C22_StartIffActive ==
  (session_start_time # None) <=> session_active

\* C22 witness: a session that had been open since an earlier time was closed by the
\* absence rule while the tracker runs on; session_start_time is None again.
C22_Witness ==
  /\ event.closed /\ ByAbsence
  /\ event.session_start_time # None /\ event.session_start_time < now
  /\ running /\ ~session_active /\ session_start_time = None

\* C23 (single tick loop): whatever the sequence of start, pause, resume and stop, at
\* most one update_frame callback scheduled by root.after is pending.
C23_SingleTickLoop ==
  pending <= 1

\* C24 (rows in order, no overlap): of any two rows written one after the other, the
\* later one starts no earlier than the earlier one ends, whatever detections,
\* pauses, resumes, stops and restarts lie between them.
C24_RowsOrdered ==
  \A i \in DOMAIN presence :
    i > 1 => presence[i].start_time >= presence[i - 1].end_time

\* C24 witness: a second row, of a session that was paused and resumed before it was
\* closed, starts after the first row ends.
C24_Witness ==
  /\ Len(presence) = 2 /\ event.closed /\ Inserted
  /\ event.paused_time >= TicksPerSecond
  /\ presence[2].start_time > presence[1].end_time
  /\ presence[1].end_time > presence[1].start_time

\* C25 (one row per session, append-only): a step either leaves the presence table as
\* it is or appends one row to it, the rows already there untouched; a row is
\* appended only by a step that finds a session open and leaves it closed, and the
\* row begins at that session's start.  So every row belongs to a session of its
\* own, and no session, once its row is written, can write another.
C25_OneRowPerSession ==
  [][\/ presence' = presence
     \/ /\ Len(presence') = Len(presence) + 1
        /\ SubSeq(presence', 1, Len(presence)) = presence
        /\ session_active /\ ~session_active'
        /\ LastRow'.start_time = StrfTime(session_start_time + StepShift)]_vars

\* C25 witness: the second session opened has been closed and its row appended
\* after the row of the first; no session is open.
C25_Witness ==
  /\ Inserted /\ event.closed
  /\ event.rows = 1 /\ Len(presence) = 2
  /\ LastRow.start_time = StrfTime(ClosedStart)
  /\ ~session_active

\* The longest a session can stay open once every detection run finds nobody: the
\* next run is due within detection_interval = FastInterval and begins the absence
\* streak at the latest, and the streak is confirmed absence_threshold later.
CloseWithin == FastInterval + absence_threshold

\* C26 (an abandoned session is closed): from a state in which a session is open, the
\* tracker is Running and the clock has CloseWithin left to run, if the tracker stays
\* Running (no stop, no failed frame read, no pause) and no detection run finds a
\* person, a state follows in which the session is closed, by the absence rule alone.
C26_AbsenceCloses ==
  (session_active /\ running /\ ~paused /\ now + CloseWithin <= LiveHorizon)
    ~> (\/ ~session_active
        \/ ~running \/ paused
        \/ Called("model.track present"))

\* C26 witness: with the tracker Running throughout, a run that found nobody closed
\* the session exactly absence_threshold after the streak began.
C26_Witness ==
  /\ ByTimer /\ Called("model.track absent") /\ ByAbsence
  /\ event.closed /\ ~event.paused
  /\ now = event.absence_start_time + absence_threshold
  /\ running /\ ~paused /\ ~session_active
  /\ ~Called("stop_tracker")

\* The step begins and ends on the same calendar day, and the open session and all
\* rows of the table, before and after the step, began on that day.
WithinOneDay ==
  LET today == DateOf(StrfTime(now'))
  IN  /\ DateOf(StrfTime(now)) = today
      /\ session_active => DateOf(StrfTime(session_start_time)) = today
      /\ \A i \in DOMAIN presence' : DateOf(presence'[i].start_time) = today

\* C27 (displayed total never decreases): a timer callback of a tracker that is and
\* stays Running, within one calendar day and with no failed insert, leaves a total
\* for today on display that is not smaller than the one displayed before it, also
\* when the callback closes a session by the absence rule.
C27_DisplayMonotone ==
  [][(/\ running /\ ~paused /\ running' /\ ~paused'
      /\ ByTimer' /\ RunningTick'
      /\ ~Called("INSERT failed")'
      /\ WithinOneDay)
     => display_total' >= display_total]_vars

\* C28 (the tick loop ends on stop): a callback that fires on a Stopped tracker
\* returns at once: it changes no field, writes no row and schedules nothing, so one
\* callback fewer is pending; and from every Stopped state a state follows in which
\* no callback is pending, unless the tracker is started again.
C28_LoopEndsOnStop ==
  /\ [][(~running /\ ~paused /\ ByTimer')
        => (/\ calls' = <<"update_frame">>
            /\ pending' = pending - 1
            /\ UNCHANGED <<now, running, paused, pause_start_time, camera, model, conn,
                           session_active, session_start_time, current_session_duration,
                           last_detection_run_time, detection_interval,
                           absence_start_time, total_time_today, status_label,
                           display_total, presence>>)]_vars
  /\ (~running /\ ~paused) ~> (pending = 0 \/ running)

\* C28 witness: after a stop that wrote the row of the open session, the last pending
\* callback has fired on the Stopped tracker and none is pending.
C28_Witness ==
  /\ ~running /\ ~paused
  /\ calls = <<"update_frame">>
  /\ pending = 0
  /\ Len(presence) = 1 /\ status_label = "Stopped"

====
